---- MODULE Spec2Model ----
(***************************************************************************)
(* Model of sync_folders.py: one-way periodic mirroring of a source tree   *)
(* into a replica tree.  The file system is one function from absolute     *)
(* paths to nodes; a pass of synchronize_folders is a sequence of steps,   *)
(* one per file-system operation, driven by the scheduler loop of main().  *)
(***************************************************************************)
EXTENDS Integers, Sequences, FiniteSets, TLC

VARIABLES args, fs, pc, stack, upStack, root, files, todo, cur, events, hashed,
          err, prev, rep0

vars == <<args, fs, pc, stack, upStack, root, files, todo, cur, events, hashed,
          err, prev, rep0>>

(* ------------------------------ bounds --------------------------------- *)
MaxDepth == 2
MaxSrcEntries == 2
MaxRepEntries == 2
MaxByte == 1
DigestBits == 16
MaxLiveEntries == 1

(* ---------------------------- constants -------------------------------- *)
ChunkSize == 4096

Names == {"a", "b"}

(* ------------------------------ paths ---------------------------------- *)
(* the two directories of the disk, and the command line: replica may be   *)
(* given as the source directory itself                                     *)
SourcePath == <<"S">>

ReplicaPath == <<"R">>

Args == {[source |-> SourcePath, replica |-> p] : p \in {ReplicaPath, SourcePath}}

source == args.source

replica == args.replica

SamePath == replica = source

RelPaths == UNION {[1..n -> Names] : n \in 0..MaxDepth}

Join(p, n) == p \o <<n>>

Parent(p) == SubSeq(p, 1, Len(p) - 1)

IsPrefix(p, q) == Len(p) <= Len(q) /\ SubSeq(q, 1, Len(p)) = p

(* ------------------------------ nodes ---------------------------------- *)
Bytes == 1..MaxByte

(* files of at most one byte *)
Contents == {<<>>} \cup {<<b>> : b \in Bytes}

(* modification times: that of the source's files, and the time of a write *)
MTimes == {"old", "new"}

NoNode == [kind |-> "none", content |-> <<>>, mtime |-> "-"]

DirNode == [kind |-> "dir", content |-> <<>>, mtime |-> "-"]

FileNode(c, m) == [kind |-> "file", content |-> c, mtime |-> m]

FileNodes == {FileNode(c, m) : c \in Contents, m \in MTimes}

SourceFileNodes == {FileNode(c, "old") : c \in Contents}

Kind(f, p) == IF p \in DOMAIN f THEN f[p].kind ELSE "none"

Exists(f, p) == Kind(f, p) # "none"

IsDir(f, p) == Kind(f, p) = "dir"

ListDir(f, p) == {n \in Names : Exists(f, Join(p, n))}

DirsOf(f, p) == {n \in Names : IsDir(f, Join(p, n))}

FilesOf(f, p) == ListDir(f, p) \ DirsOf(f, p)

(* ----------------------- fingerprint (calculate_md5) ------------------- *)
DigestMod == 2 ^ DigestBits

RECURSIVE Md5Update(_, _)
Md5Update(h, chunk) ==
  IF chunk = <<>> THEN h
  ELSE Md5Update((h * 257 + Head(chunk) + 1) % DigestMod, Tail(chunk))

Read(data, pos) ==
  SubSeq(data, pos + 1, IF pos + ChunkSize < Len(data) THEN pos + ChunkSize ELSE Len(data))

RECURSIVE Md5Loop(_, _, _)
Md5Loop(h, data, pos) ==
  IF Read(data, pos) = <<>> THEN h
  ELSE Md5Loop(Md5Update(h, Read(data, pos)), data, pos + Len(Read(data, pos)))

calculate_md5(f, p) == Md5Loop(1, f[p].content, 0)

(* --------------------------- initial trees ----------------------------- *)
NonRoot == RelPaths \ {<<>>}

EntrySets(maxEntries) ==
  {E \in SUBSET NonRoot :
     /\ Cardinality(E) <= maxEntries
     /\ \A r \in E : Len(r) > 1 => Parent(r) \in E}

DirSets(E) ==
  {D \in SUBSET E : \A r \in E : Len(r) > 1 => Parent(r) \in D}

TreeAt(base, E, D, c) ==
  [p \in {base \o r : r \in RelPaths} |->
     LET r == SubSeq(p, Len(base) + 1, Len(p)) IN
       IF r = <<>> \/ r \in D THEN DirNode
       ELSE IF r \in E THEN c[r]
       ELSE NoNode]

Blank(base, node) ==
  [p \in {base \o r : r \in RelPaths} |-> IF p = base THEN node ELSE NoNode]

Trees(base, maxEntries, nodes) ==
  UNION {UNION {{TreeAt(base, E, D, c) : c \in [E \ D -> nodes]} : D \in DirSets(E)}
           : E \in EntrySets(maxEntries)}

(* a root that is a directory, is missing, or is a regular file *)
States(base, maxEntries, nodes) ==
  Trees(base, maxEntries, nodes)
    \cup {Blank(base, NoNode), Blank(base, FileNode(<<>>, "old"))}

(* the replica as a relative tree: what a pass is compared against *)
RelTree(f, base) == [r \in RelPaths |-> f[base \o r]]

InitWith(ns, nr) ==
  /\ args \in Args
  /\ fs \in {s @@ r : s \in States(SourcePath, ns, SourceFileNodes),
                      r \in IF SamePath THEN {Blank(ReplicaPath, NoNode)}
                            ELSE States(ReplicaPath, nr, FileNodes)}
  /\ pc = "start"
  /\ stack = <<>>
  /\ upStack = <<>>
  /\ root = <<>>
  /\ files = {}
  /\ todo = {}
  /\ cur = ""
  /\ events = {}
  /\ hashed = {}
  /\ err = "none"
  /\ prev = "none"
  /\ rep0 = RelTree(fs, replica)

Init == InitWith(MaxSrcEntries, MaxRepEntries)

(* ------------------------- events and raising --------------------------- *)
Emit(kind, r) == events' = events \cup {<<kind, r>>}

Raise(e) ==
  /\ pc' = "except"
  /\ err' = e

(* os.makedirs: create the directory and its missing ancestors; a file on *)
(* the way makes the underlying mkdir fail                                  *)
Chain(p) == {SubSeq(p, 1, n) : n \in Len(replica)..Len(p)}

MakeDirsBlocked(f, p) == \E q \in Chain(p) : Kind(f, q) = "file"

MakeDirs(f, p) == [q \in DOMAIN f |-> IF q \in Chain(p) THEN DirNode ELSE f[q]]

(* os.path.exists(os.path.join(replica, rel_path)): for the top directory  *)
(* rel_path is "." and a regular file at replica does not count             *)
ReplicaRootExists(f, r) ==
  IF r = <<>> THEN IsDir(f, replica) ELSE Exists(f, replica \o r)

(* line 38: the paths handed to calculate_md5, each with what is found     *)
(* there; the right operand of "or" is evaluated only for an existing      *)
(* replica entry                                                           *)
Hashed(f, s, d) ==
  IF Exists(f, d) THEN {<<s, Kind(f, s)>>, <<d, Kind(f, d)>>} ELSE {}

(* a copy condition that also looks at the modification time *)
NeedsCopyMtime(f, s, d) ==
  \/ ~Exists(f, d)
  \/ calculate_md5(f, s) # calculate_md5(f, d)
  \/ f[s].mtime # f[d].mtime

(* the copy condition of line 38, for a replica entry that can be hashed   *)
NeedsCopy(f, s, d) ==
  \/ ~Exists(f, d)
  \/ calculate_md5(f, s) # calculate_md5(f, d)

(* --------------------------- scheduler: main --------------------------- *)
(* the frame of synchronize_folders is gone once the call is over *)
Return ==
  /\ stack' = <<>>
  /\ upStack' = <<>>
  /\ root' = <<>>
  /\ files' = {}
  /\ todo' = {}
  /\ cur' = ""

Start ==
  /\ pc = "start"
  /\ pc' = "walk0"
  /\ events' = {}
  /\ hashed' = {}
  /\ err' = "none"
  /\ rep0' = RelTree(fs, replica)
  /\ UNCHANGED <<fs, stack, upStack, root, files, todo, cur, prev, args>>

Completed ==
  /\ pc = "completed"
  /\ pc' = "sleep"
  /\ prev' = "ok"
  /\ Return
  /\ UNCHANGED <<fs, events, err, rep0, args, hashed>>

(* a loop without the except clause: the error ends the process *)
ExceptUncaught ==
  /\ pc = "except"
  /\ pc' = "exit"
  /\ prev' = "failed"
  /\ Return
  /\ UNCHANGED <<fs, events, err, rep0, args, hashed>>

Except ==
  /\ pc = "except"
  /\ pc' = "sleep"
  /\ prev' = "failed"
  /\ Return
  /\ UNCHANGED <<fs, events, err, rep0, args, hashed>>

(* a timer that calls for the next pass whatever the current one is doing *)
SleepTimer ==
  /\ pc # "start"
  /\ pc' = "start"
  /\ UNCHANGED <<fs, stack, upStack, root, files, todo, cur, events, err, prev,
               rep0, args, hashed>>

Sleep ==
  /\ pc = "sleep"
  /\ pc' = "start"
  /\ UNCHANGED <<fs, stack, upStack, root, files, todo, cur, events, err, prev,
               rep0, args, hashed>>

(* ------------------- downward pass: os.walk(source) -------------------- *)
Frame(r, ds) == [path |-> r, todo |-> ds]

RECURSIVE Unwind(_)
Unwind(st) ==
  IF st = <<>> THEN st
  ELSE IF st[Len(st)].todo = {} THEN Unwind(SubSeq(st, 1, Len(st) - 1))
  ELSE st

(* a walk that takes a missing source for an empty directory *)
DownEnterEmpty ==
  /\ pc = "walk0"
  /\ stack' = <<Frame(<<>>, DirsOf(fs, source))>>
  /\ root' = <<>>
  /\ files' = FilesOf(fs, source)
  /\ pc' = "mkdir"
  /\ UNCHANGED <<fs, upStack, todo, cur, events, err, prev, rep0, args, hashed>>

DownEnter ==
  /\ pc = "walk0"
  /\ IF IsDir(fs, source)
     THEN /\ stack' = <<Frame(<<>>, DirsOf(fs, source))>>
          /\ root' = <<>>
          /\ files' = FilesOf(fs, source)
          /\ pc' = "mkdir"
     ELSE /\ pc' = "upwalk0"
          /\ UNCHANGED <<stack, root, files>>
  /\ UNCHANGED <<fs, upStack, todo, cur, events, err, prev, rep0, args, hashed>>

DownNext ==
  /\ pc = "walk"
  /\ LET st == Unwind(stack) IN
       IF st = <<>>
       THEN /\ stack' = <<>>
            /\ pc' = "upwalk0"
            /\ UNCHANGED <<root, files>>
       ELSE \E n \in st[Len(st)].todo :
              LET top == st[Len(st)]
                  r == Join(top.path, n)
                  rest == [st EXCEPT ![Len(st)] = Frame(top.path, top.todo \ {n})]
              IN IF IsDir(fs, source \o r)
                 THEN /\ stack' = Append(rest, Frame(r, DirsOf(fs, source \o r)))
                      /\ root' = r
                      /\ files' = FilesOf(fs, source \o r)
                      /\ pc' = "mkdir"
                 ELSE /\ stack' = rest
                      /\ pc' = "walk"
                      /\ UNCHANGED <<root, files>>
  /\ UNCHANGED <<fs, upStack, todo, cur, events, err, prev, rep0, args, hashed>>

(* lines 28-30 *)
MkdirStep ==
  /\ pc = "mkdir"
  /\ LET d == replica \o root IN
       IF ReplicaRootExists(fs, root)
       THEN /\ pc' = "copy"
            /\ todo' = files
            /\ UNCHANGED <<fs, events, err>>
       ELSE IF MakeDirsBlocked(fs, d)
       THEN /\ Raise("NotADirectoryError")
            /\ UNCHANGED <<fs, events, todo>>
       ELSE /\ fs' = MakeDirs(fs, d)
            /\ Emit("mkdir", root)
            /\ pc' = "copy"
            /\ todo' = files
            /\ UNCHANGED err
  /\ UNCHANGED <<stack, upStack, root, files, cur, prev, rep0, args, hashed>>

(* lines 33-38 and the opening of the destination by shutil.copy2 *)
CopyStep ==
  /\ pc = "copy"
  /\ \E n \in todo :
       LET s == source \o Join(root, n)
           d == replica \o Join(root, n)
       IN /\ hashed' = hashed \cup Hashed(fs, s, d)
          /\ IF ~IsDir(fs, replica \o root)
             THEN /\ Raise("NotADirectoryError")
                  /\ UNCHANGED <<fs, todo, cur>>
             ELSE IF IsDir(fs, d)
             THEN /\ Raise("IsADirectoryError")
                  /\ UNCHANGED <<fs, todo, cur>>
             ELSE IF NeedsCopy(fs, s, d)
             THEN /\ fs' = [fs EXCEPT ![d] = FileNode(<<>>, "new")]
                  /\ cur' = n
                  /\ pc' = "copying"
                  /\ UNCHANGED <<todo, err>>
             ELSE /\ todo' = todo \ {n}
                  /\ UNCHANGED <<fs, pc, cur, err>>
  /\ UNCHANGED <<stack, upStack, root, files, events, prev, rep0, args>>

(* a transfer that moves the file: the source entry is gone afterwards *)
CopyFinishMove ==
  /\ pc = "copying"
  /\ LET s == source \o Join(root, cur)
         d == replica \o Join(root, cur)
     IN fs' = [fs EXCEPT ![d] = FileNode(fs[s].content, fs[s].mtime),
                         ![s] = NoNode]
  /\ Emit("copy", Join(root, cur))
  /\ todo' = todo \ {cur}
  /\ pc' = "copy"
  /\ UNCHANGED <<stack, upStack, root, files, cur, err, prev, rep0, args, hashed>>

(* lines 39-40: the content and the metadata arrive, the copy is logged *)
CopyFinish ==
  /\ pc = "copying"
  /\ LET s == source \o Join(root, cur)
         d == replica \o Join(root, cur)
     IN fs' = [fs EXCEPT ![d] = FileNode(fs[s].content, fs[s].mtime)]
  /\ Emit("copy", Join(root, cur))
  /\ todo' = todo \ {cur}
  /\ pc' = "copy"
  /\ UNCHANGED <<stack, upStack, root, files, cur, err, prev, rep0, args, hashed>>

(* line 43: os.listdir(replica_root) *)
ListReplica ==
  /\ pc = "copy"
  /\ todo = {}
  /\ IF IsDir(fs, replica \o root)
     THEN /\ todo' = ListDir(fs, replica \o root)
          /\ pc' = "prune"
          /\ UNCHANGED err
     ELSE /\ Raise("NotADirectoryError")
          /\ UNCHANGED todo
  /\ UNCHANGED <<fs, stack, upStack, root, files, cur, events, prev, rep0, args, hashed>>

(* a pruning that keeps the entries named like the source's               *)
(* subdirectories and removes the others                                   *)
PruneStepDirs ==
  /\ pc = "prune"
  /\ \E n \in todo :
       LET d == replica \o Join(root, n) IN
         IF n \in DirsOf(fs, source \o root)
         THEN /\ todo' = todo \ {n}
              /\ UNCHANGED <<fs, pc, events, err>>
         ELSE IF IsDir(fs, d)
         THEN /\ Raise("IsADirectoryError")
              /\ UNCHANGED <<fs, todo, events>>
         ELSE /\ fs' = [fs EXCEPT ![d] = NoNode]
              /\ Emit("remove", Join(root, n))
              /\ todo' = todo \ {n}
              /\ UNCHANGED <<pc, err>>
  /\ UNCHANGED <<stack, upStack, root, files, cur, prev, rep0, args, hashed>>

(* lines 44-47 *)
PruneStep ==
  /\ pc = "prune"
  /\ \E n \in todo :
       LET d == replica \o Join(root, n) IN
         IF n \in files
         THEN /\ todo' = todo \ {n}
              /\ UNCHANGED <<fs, pc, events, err>>
         ELSE IF IsDir(fs, d)
         THEN /\ Raise("IsADirectoryError")
              /\ UNCHANGED <<fs, todo, events>>
         ELSE /\ fs' = [fs EXCEPT ![d] = NoNode]
              /\ Emit("remove", Join(root, n))
              /\ todo' = todo \ {n}
              /\ UNCHANGED <<pc, err>>
  /\ UNCHANGED <<stack, upStack, root, files, cur, prev, rep0, args, hashed>>

PruneDone ==
  /\ pc = "prune"
  /\ todo = {}
  /\ pc' = "walk"
  /\ UNCHANGED <<fs, stack, upStack, root, files, todo, cur, events, err, prev,
               rep0, args, hashed>>

(* --------------- upward pass: os.walk(replica, topdown=False) ---------- *)
(* a cleanup that lists a directory without walking into its children *)
UpFrameFlat(r, ds) == [path |-> r, dirs |-> ds, todo |-> {}]

(* a directory is listed when the walk enters it; its subdirectories are  *)
(* walked before it is yielded                                             *)
UpFrame(r, ds) == [path |-> r, dirs |-> ds, todo |-> ds]

UpEnter ==
  /\ pc = "upwalk0"
  /\ IF IsDir(fs, replica)
     THEN /\ upStack' = <<UpFrame(<<>>, DirsOf(fs, replica))>>
          /\ pc' = "upwalk"
     ELSE /\ pc' = "completed"
          /\ UNCHANGED upStack
  /\ UNCHANGED <<fs, stack, root, files, todo, cur, events, err, prev, rep0,
               args, hashed>>

UpNext ==
  /\ pc = "upwalk"
  /\ IF upStack = <<>>
     THEN /\ pc' = "completed"
          /\ UNCHANGED <<upStack, root, todo>>
     ELSE LET k == Len(upStack)
              top == upStack[k]
          IN IF top.todo = {}
             THEN /\ upStack' = SubSeq(upStack, 1, k - 1)
                  /\ root' = top.path
                  /\ todo' = top.dirs
                  /\ pc' = "rmdirs"
             ELSE \E n \in top.todo :
                    LET r == Join(top.path, n)
                        rest == [upStack EXCEPT ![k].todo = top.todo \ {n}]
                    IN /\ upStack' = IF IsDir(fs, replica \o r)
                                     THEN Append(rest, UpFrame(r, DirsOf(fs, replica \o r)))
                                     ELSE rest
                       /\ UNCHANGED <<pc, root, todo>>
  /\ UNCHANGED <<fs, stack, files, cur, events, err, prev, rep0, args, hashed>>

(* lines 51-55 *)
RmdirStep ==
  /\ pc = "rmdirs"
  /\ \E n \in todo :
       LET d == replica \o Join(root, n) IN
         /\ IF ~Exists(fs, d)
            THEN /\ Raise("FileNotFoundError")
                 /\ UNCHANGED <<fs, events, todo>>
            ELSE IF ~IsDir(fs, d)
            THEN /\ Raise("NotADirectoryError")
                 /\ UNCHANGED <<fs, events, todo>>
            ELSE IF ListDir(fs, d) = {}
            THEN /\ fs' = [fs EXCEPT ![d] = NoNode]
                 /\ Emit("rmdir", Join(root, n))
                 /\ todo' = todo \ {n}
                 /\ UNCHANGED <<pc, err>>
            ELSE /\ todo' = todo \ {n}
                 /\ UNCHANGED <<fs, events, pc, err>>
  /\ UNCHANGED <<stack, upStack, root, files, cur, prev, rep0, args, hashed>>

(* a sweep that also removes the directory it has just handled when that  *)
(* directory is empty, the replica root included                           *)
RmdirDoneSelf ==
  /\ pc = "rmdirs"
  /\ todo = {}
  /\ fs' = IF ListDir(fs, replica \o root) = {}
           THEN [fs EXCEPT ![replica \o root] = NoNode]
           ELSE fs
  /\ pc' = "upwalk"
  /\ UNCHANGED <<stack, upStack, root, files, todo, cur, events, err, prev,
               rep0, args, hashed>>

RmdirDone ==
  /\ pc = "rmdirs"
  /\ todo = {}
  /\ pc' = "upwalk"
  /\ UNCHANGED <<fs, stack, upStack, root, files, todo, cur, events, err, prev,
               rep0, args, hashed>>

(* ---------------- failures of the file system itself ------------------- *)
(* an operation on one entry is refused (permissions, full disk, ...):    *)
(* nothing in synchronize_folders catches the OSError                      *)
IOFault ==
  /\ \/ pc = "mkdir" /\ ~ReplicaRootExists(fs, root)
     \/ pc \in {"copy", "prune", "rmdirs"} /\ todo # {}
  /\ Raise("OSError")
  /\ UNCHANGED <<fs, stack, upStack, root, files, todo, cur, events, prev,
               rep0, args, hashed>>

(* shutil.copy2 writes into the opened destination in place: a failure    *)
(* while writing leaves a proper prefix of the source content              *)
Prefixes(c) == {SubSeq(c, 1, n) : n \in 0..(Len(c) - 1)}

CopyFault ==
  /\ pc = "copying"
  /\ LET s == source \o Join(root, cur)
         d == replica \o Join(root, cur)
     IN \E c \in Prefixes(fs[s].content) \cup {<<>>} :
          fs' = [fs EXCEPT ![d] = FileNode(c, "new")]
  /\ Raise("OSError")
  /\ UNCHANGED <<stack, upStack, root, files, todo, cur, events, prev, rep0,
               args, hashed>>

Next ==
  \/ Start
  \/ DownEnter
  \/ DownNext
  \/ MkdirStep
  \/ CopyStep
  \/ CopyFinish
  \/ ListReplica
  \/ PruneStep
  \/ PruneDone
  \/ UpEnter
  \/ UpNext
  \/ RmdirStep
  \/ RmdirDone
  \/ IOFault
  \/ CopyFault
  \/ Completed
  \/ Except
  \/ Sleep

Spec == Init /\ [][Next]_vars

(* the scheduler loop keeps running: the next statement is always taken *)
LiveInit == InitWith(MaxLiveEntries, MaxLiveEntries)

LiveSpec == LiveInit /\ [][Next]_vars /\ WF_vars(Next)

(* ======================== properties of a pass ========================= *)
PassEnded == pc \in {"completed", "except"}

SameEntry(f, r) ==
  /\ Kind(f, source \o r) = Kind(f, replica \o r)
  /\ Kind(f, source \o r) = "file" =>
       calculate_md5(f, source \o r) = calculate_md5(f, replica \o r)

Mirrored == \A r \in RelPaths : SameEntry(fs, r)

Below(r) == {q \in RelPaths : IsPrefix(r, q)}

(* C1: after a pass over an existing source that completes without         *)
(* raising, the replica has the same relative paths (files and             *)
(* directories) as the source and every file has the source's fingerprint  *)
C1_Convergence ==
  (pc = "completed" /\ IsDir(fs, source)) => Mirrored

(* C2: a replica subdirectory with nothing at its path in the source is    *)
(* gone, with everything below it, when the pass is over                   *)
C2_SubtreeRemoved ==
  (PassEnded /\ err # "OSError" /\ IsDir(fs, source)) =>
    \A r \in NonRoot :
      (rep0[r].kind = "dir" /\ ~Exists(fs, source \o r)) =>
        \A q \in Below(r) : ~Exists(fs, replica \o q)

(* C3: a pass that follows a successful pass emits no create-directory,    *)
(* copy, remove-file or remove-directory event and leaves the replica as   *)
(* it was                                                                  *)
C3_Idempotence ==
  (prev = "ok" /\ PassEnded /\ err # "OSError") =>
    (events = {} /\ RelTree(fs, replica) = rep0)

(* C4: in a directory that exists in source and replica, a replica file    *)
(* whose name is not a file of the source directory is removed by the      *)
(* pass, and a replica file equal in content to its source file is left    *)
(* as it was                                                               *)
C4_FileDeletion ==
  (PassEnded /\ err # "OSError") =>
    \A r \in RelPaths : \A n \in Names :
      (Len(r) < MaxDepth /\ IsDir(fs, source \o r) /\ rep0[r].kind = "dir"
         /\ rep0[Join(r, n)].kind = "file") =>
        IF n \in FilesOf(fs, source \o r)
        THEN rep0[Join(r, n)].content = fs[source \o Join(r, n)].content
               => fs[replica \o Join(r, n)] = rep0[Join(r, n)]
        ELSE fs[replica \o Join(r, n)] # rep0[Join(r, n)]

(* the copy of r was decided and its destination is open for writing *)
CopyInProgress(r) == pc = "copying" /\ r = Join(root, cur)

(* C5: no step of a pass writes to, or logs a copy of, a replica file      *)
(* whose fingerprint equals that of the source file at the same relative   *)
(* path, whatever the modification times are (a file whose copy is under   *)
(* way was found absent or different when the copy was decided)            *)
C5_NoRecopy ==
  [][\A r \in NonRoot :
       (/\ ~CopyInProgress(r)
        /\ Kind(fs, source \o r) = "file"
        /\ Kind(fs, replica \o r) = "file"
        /\ calculate_md5(fs, source \o r) = calculate_md5(fs, replica \o r)) =>
         (/\ fs'[replica \o r] = fs[replica \o r]
          /\ <<"copy", r>> \notin (events' \ events))]_vars

C5_Witness ==
  /\ pc = "completed"
  /\ \E r \in NonRoot :
       /\ rep0[r].kind = "file"
       /\ Kind(fs, source \o r) = "file"
       /\ rep0[r].content = fs[source \o r].content
       /\ rep0[r].mtime # fs[source \o r].mtime
       /\ fs[replica \o r] = rep0[r]
       /\ <<"copy", r>> \notin events

(* C6: when a pass has completed, no directory of the replica other than   *)
(* the replica root is empty                                               *)
C6_NoEmptyDirs ==
  pc = "completed" =>
    \A r \in NonRoot : IsDir(fs, replica \o r) => ListDir(fs, replica \o r) # {}

C6_Witness ==
  /\ pc = "completed"
  /\ \E r \in NonRoot : \E n \in Names :
       /\ Join(r, n) \in RelPaths
       /\ <<"rmdir", Join(r, n)>> \in events
       /\ <<"rmdir", r>> \in events

(* C7: an error on one entry never aborts the pass                         *)
C7_ErrorsLocalized ==
  err # "none" => pc # "except"

(* C8: with the source directory missing, the pass ends with an error      *)
(* and the replica is as it was before the pass                            *)
C8_MissingSource ==
  (PassEnded /\ ~Exists(fs, source)) =>
    (pc = "except" /\ RelTree(fs, replica) = rep0)

(* C9: every pass that raised is followed by the start of another pass,    *)
(* and a pass is started infinitely often                                  *)
C9_SchedulerGoesOn ==
  /\ (pc = "except") ~> (pc = "walk0")
  /\ []<>(pc = "walk0")

C9_Witness ==
  /\ pc = "walk0"
  /\ prev = "failed"

(* what an interrupted pass leaves behind: some of the source's            *)
(* directories and files, each as in the source, and nothing else          *)
PartialMirror(t) ==
  /\ t[<<>>].kind = "dir"
  /\ \A r \in NonRoot : t[r].kind # "none" => t[r] = fs[source \o r]

(* C10: the pass after a failed pass that left part of the source in the   *)
(* replica, over an unchanged source, completes and leaves the replica     *)
(* equal to the source                                                     *)
C10_Repair ==
  (prev = "failed" /\ PartialMirror(rep0) /\ PassEnded /\ err # "OSError"
     /\ IsDir(fs, source)) =>
    (pc = "completed" /\ Mirrored)

(* C11: with source and replica naming the same directory, a pass ends     *)
(* with an error before any directory is visited and changes nothing       *)
C11_SamePath ==
  (SamePath /\ IsDir(fs, source)) =>
    /\ pc \in {"start", "walk0", "except", "sleep"}
    /\ RelTree(fs, replica) = rep0

(* C12: a pass starts only from the top of the loop, the top of the loop   *)
(* is reached only from the wait, and the wait only from the end of a      *)
(* pass, completed or failed: no pass starts while another is in progress  *)
C12_NoOverlap ==
  [][/\ pc' = "walk0" => pc = "start"
     /\ pc' = "start" => pc = "sleep"
     /\ pc' = "sleep" => pc \in {"completed", "except"}]_vars

C12_Witness ==
  /\ pc = "walk0"
  /\ prev = "ok"

(* C13: pruning a replica directory in the downward pass never fails on    *)
(* one of its subdirectory entries                                         *)
C13_PruneSkipsDirs ==
  [][pc = "prune" => err' # "IsADirectoryError"]_vars

(* C14: after a pass that completed, every directory of the source, empty  *)
(* ones included, is a directory of the replica                            *)
C14_DirsMirrored ==
  (pc = "completed" /\ IsDir(fs, source)) =>
    \A r \in RelPaths : IsDir(fs, source \o r) => IsDir(fs, replica \o r)

(* C15: when a pass has failed, every replica file that has a source file  *)
(* at its relative path holds the complete content of that source file or  *)
(* the content it had when the pass started, never a truncated or partial  *)
(* file                                                                    *)
C15_AtomicCopy ==
  pc = "except" =>
    \A r \in NonRoot :
      (Kind(fs, source \o r) = "file" /\ Kind(fs, replica \o r) = "file") =>
        \/ fs[replica \o r].content = fs[source \o r].content
        \/ /\ rep0[r].kind = "file"
           /\ fs[replica \o r].content = rep0[r].content

(* C16: during a pass calculate_md5 is applied to regular files only      *)
C16_HashOnlyFiles ==
  \A h \in hashed : h[2] = "file"

(* C17: no step removes the replica root: once it is a directory it stays  *)
(* one, also when the pass leaves it empty                                 *)
C17_RootKept ==
  [][IsDir(fs, replica) => IsDir(fs', replica)]_vars

C17_Witness ==
  /\ pc = "completed"
  /\ IsDir(fs, replica)
  /\ ListDir(fs, replica) = {}
  /\ \E r \in NonRoot : <<"remove", r>> \in events

(* C18: with source and replica being different trees, no step of a pass,  *)
(* of a failing pass included, changes the paths or the file contents of   *)
(* the source                                                              *)
C18_SourceReadOnly ==
  [][~SamePath => RelTree(fs', source) = RelTree(fs, source)]_vars

C18_Witness ==
  /\ ~SamePath
  /\ pc = "completed"
  /\ \A k \in {"mkdir", "copy", "remove", "rmdir"} :
       \E r \in RelPaths : <<k, r>> \in events

(* C19: a step that removes a replica file removes one whose relative path *)
(* holds no file in the source, and a replica file whose relative path     *)
(* holds a file in the source is still a file after every step, in         *)
(* completed and failing passes alike                                      *)
C19_ValidFilesKept ==
  [][\A r \in NonRoot :
       /\ <<"remove", r>> \in events' \ events =>
            Kind(fs, source \o r) # "file"
       /\ (Kind(fs, source \o r) = "file" /\ Kind(fs, replica \o r) = "file") =>
            Kind(fs', replica \o r) = "file"]_vars

C19_Witness ==
  /\ ~SamePath
  /\ pc = "completed"
  /\ \E r \in NonRoot : <<"remove", r>> \in events
  /\ \E r \in NonRoot :
       /\ rep0[r].kind = "file"
       /\ Kind(fs, source \o r) = "file"
       /\ Kind(fs, replica \o r) = "file"

(* C20: while the source directory does not exist, a pass removes no file  *)
(* and copies nothing, and every file the replica had when the pass        *)
(* started is there with the same content                                  *)
C20_VanishedSource ==
  ~Exists(fs, source) =>
    /\ \A r \in NonRoot : rep0[r].kind = "file" => fs[replica \o r] = rep0[r]
    /\ \A r \in RelPaths : <<"copy", r>> \notin events
    /\ \A r \in RelPaths : <<"remove", r>> \notin events

C20_Witness ==
  /\ ~Exists(fs, source)
  /\ pc = "completed"
  /\ \E r \in NonRoot : rep0[r].kind = "file"
  /\ \E r \in NonRoot : <<"rmdir", r>> \in events
====
